---- MODULE Spec2Model ----
(***************************************************************************)
(* Model of time_fastmcp_server (src/main.py): the two tools               *)
(* get_current_time and convert_time, the helpers get_local_tz and         *)
(* get_zoneinfo, and the parts of datetime / zoneinfo they call.           *)
(*                                                                         *)
(* Time is counted in seconds from 2026-01-01T00:00:00Z; a calendar date   *)
(* is its day number in 2026 (0 = 1 January), which stands for the         *)
(* (year, month, day) triple the code copies.  A Python str is a TLA+      *)
(* string, except where the code looks at its characters (time_str, the    *)
(* formatted difference): there it is a sequence of one-character strings. *)
(* An Optional value is a sequence of length 0 (None) or 1.                *)
(***************************************************************************)
EXTENDS Integers, Sequences, FiniteSets, TLC

\* ---------------------------------------------------------------- bounds

\* Clock readings taken per modelled day.
ReadingsPerDay == 3

\* ------------------------------------------------------------ arithmetic

SecondsPerDay == 24 * 60 * 60

SecondsPerHour == 60 * 60

Abs(n) == IF n < 0 THEN -n ELSE n

Max(a, b) == IF a >= b THEN a ELSE b

Min(a, b) == IF a <= b THEN a ELSE b

\* Python's floor division and modulo by a positive number.
FloorDiv(a, b) == IF a >= 0 THEN a \div b ELSE -((-a + b - 1) \div b)

Mod(a, b) == a - b * FloorDiv(a, b)

\* ------------------------------------------------- the timezone database

\* The keys ZoneInfo finds.  Each zone has its 2026 rules: the offset before
\* the first transition and the year's transitions in order, each with the
\* UTC instant it happens at and the utcoffset and dst it switches to.
\* America/New_York: 8 March 07:00Z -> EDT, 1 November 06:00Z -> EST.
\* Europe/Paris: 29 March 01:00Z -> CEST, 25 October 01:00Z -> CET.
Day(d) == d * SecondsPerDay

Hours(h) == h * SecondsPerHour

TzDatabase ==
    ("UTC" :> [utcoff |-> 0, trans |-> << >>]) @@
    ("Asia/Kolkata" :> [utcoff |-> Hours(5) + 30 * 60, trans |-> << >>]) @@
    ("Asia/Kathmandu" :> [utcoff |-> Hours(5) + 45 * 60, trans |-> << >>]) @@
    ("Asia/Shanghai" :> [utcoff |-> Hours(8), trans |-> << >>]) @@
    ("America/New_York" :> [utcoff |-> -Hours(5), trans |->
        << [utc |-> Day(66) + Hours(7), utcoff |-> -Hours(4), dst |-> Hours(1)],
           [utc |-> Day(304) + Hours(6), utcoff |-> -Hours(5), dst |-> 0] >>]) @@
    ("Europe/Paris" :> [utcoff |-> Hours(1), trans |->
        << [utc |-> Day(87) + Hours(1), utcoff |-> Hours(2), dst |-> Hours(1)],
           [utc |-> Day(297) + Hours(1), utcoff |-> Hours(1), dst |-> 0] >>])

RecognizedZones == DOMAIN TzDatabase

\* ZoneInfo(key): the zone of a key the database has, else the lookup raises
\* ZoneInfoNotFoundError, a KeyError whose str() is the repr of its message.
ZoneInfoNotFound(key) == "'No time zone found with key " \o key \o "'"

\* ----------------------------------------------- zoneinfo, per zone key

\* The utcoffset in force before transition i of zone z.
OffsetBefore(z, i) == IF i = 1 THEN TzDatabase[z].utcoff ELSE TzDatabase[z].trans[i - 1].utcoff

\* bisect_right over the UTC transition times: how many have happened by u.
TransByUtc(z, u) == Cardinality({i \in DOMAIN TzDatabase[z].trans : TzDatabase[z].trans[i].utc <= u})

\* ZoneInfo's wall-clock transition lists: fold 0 places a transition at its
\* UTC time plus the larger of the two offsets, fold 1 at the smaller.
TransWall(z, i, fold) ==
    TzDatabase[z].trans[i].utc +
        (IF fold = 0 THEN Max(OffsetBefore(z, i), TzDatabase[z].trans[i].utcoff)
                     ELSE Min(OffsetBefore(z, i), TzDatabase[z].trans[i].utcoff))

\* A datetime's wall-clock reading as seconds, the way ZoneInfo looks it up.
WallSeconds(dt) == Day(dt.date) + Hours(dt.hour) + 60 * dt.minute + dt.second

\* ZoneInfo._find_trans(dt): how many transitions the wall time has passed.
TransByWall(dt) ==
    Cardinality({i \in DOMAIN TzDatabase[dt.tz].trans :
                    TransWall(dt.tz, i, dt.fold) <= WallSeconds(dt)})

\* datetime.utcoffset() of an aware datetime, in seconds.
utcoffset(dt) ==
    LET n == TransByWall(dt)
    IN  IF n = 0 THEN TzDatabase[dt.tz].utcoff ELSE TzDatabase[dt.tz].trans[n].utcoff

\* datetime.dst() of an aware datetime, in seconds.
dst(dt) ==
    LET n == TransByWall(dt)
    IN  IF n = 0 THEN 0 ELSE TzDatabase[dt.tz].trans[n].dst

\* An aware datetime from wall-clock seconds.
MakeDatetime(wall, fold, z) ==
    [date |-> FloorDiv(wall, SecondsPerDay),
     hour |-> Mod(wall, SecondsPerDay) \div SecondsPerHour,
     minute |-> (Mod(wall, SecondsPerHour)) \div 60,
     second |-> Mod(wall, 60),
     fold |-> fold,
     tz |-> z]

\* A fromutc that applies the zone's first offset whatever the date.
fromutc_standard(z, u) == MakeDatetime(u + TzDatabase[z].utcoff, 0, z)

\* ZoneInfo.fromutc: the wall-clock reading of UTC instant u in zone z; fold is
\* set inside the repeated hour after a transition that sets the clock back.
fromutc(z, u) ==
    LET n == TransByUtc(z, u)
        off == IF n = 0 THEN TzDatabase[z].utcoff ELSE TzDatabase[z].trans[n].utcoff
        fold == IF n = 0 THEN 0
                ELSE IF OffsetBefore(z, n) - off > u - TzDatabase[z].trans[n].utc THEN 1 ELSE 0
    IN  MakeDatetime(u + off, fold, z)

\* datetime.now(tz) at clock reading u.
now_in(z, u) == fromutc(z, u)

\* datetime(year, month, day, hour, minute, tzinfo=tz): seconds 0, fold 0.
datetime_new(date, hour, minute, z) ==
    [date |-> date, hour |-> hour, minute |-> minute, second |-> 0,
     fold |-> 0, tz |-> z]

\* An astimezone that relabels the wall clock, as replace(tzinfo=tz) does.
astimezone_keeps_wall(dt, z) == [dt EXCEPT !.tz = z]

\* datetime.astimezone(tz): the same object when tz is its own tzinfo (the
\* ZoneInfo of a key is cached, one object per key), else through UTC.
astimezone(dt, z) ==
    IF z = dt.tz THEN dt ELSE fromutc(z, WallSeconds(dt) - utcoffset(dt))

\* datetime.isoformat(timespec="seconds"): date, time to the second and the
\* UTC offset; the fold is not printed.
isoformat(dt) ==
    [date |-> dt.date, hour |-> dt.hour, minute |-> dt.minute,
     second |-> dt.second, offset |-> utcoffset(dt)]

\* ------------------------------------------------------------- characters

Digits == <<"0", "1", "2", "3", "4", "5", "6", "7", "8", "9">>

IsDigit(c) == \E i \in DOMAIN Digits : Digits[i] = c

DigitValue(c) == (CHOOSE i \in DOMAIN Digits : Digits[i] = c) - 1

\* The decimal digits of a natural number, as characters.
RECURSIVE DecimalChars(_)
DecimalChars(n) ==
    IF n < 10 THEN <<Digits[n + 1]>>
    ELSE DecimalChars(n \div 10) \o <<Digits[(n % 10) + 1]>>

\* str.rstrip(ch): drop every trailing ch.
RECURSIVE rstrip(_, _)
rstrip(s, ch) ==
    IF Len(s) > 0 /\ s[Len(s)] = ch THEN rstrip(SubSeq(s, 1, Len(s) - 1), ch) ELSE s

\* The str a sequence of characters spells.
RECURSIVE Join(_)
Join(s) == IF Len(s) = 0 THEN "" ELSE s[1] \o Join(Tail(s))

\* ------------------------------------------------------ outcomes of a call

Returned(v) == [kind |-> "return", value |-> v]

Raised(exc, message) == [kind |-> "raise", exc |-> exc, message |-> message]

NoOutcome == [kind |-> "none"]

\* -------------------------------------- datetime.strptime(time_str, "%H:%M")

\* %H is the regex 2[0-3]|[0-1]\d|\d : the length of each alternative's match
\* at the start of s (0: no match), in the order the regex tries them.
MatchHour(s) ==
    << IF Len(s) >= 2 /\ s[1] = "2" /\ s[2] \in {"0", "1", "2", "3"} THEN 2 ELSE 0,
       IF Len(s) >= 2 /\ s[1] \in {"0", "1"} /\ IsDigit(s[2]) THEN 2 ELSE 0,
       IF Len(s) >= 1 /\ IsDigit(s[1]) THEN 1 ELSE 0 >>

\* %M is the regex [0-5]\d|\d .
MatchMinute(s) ==
    << IF Len(s) >= 2 /\ s[1] \in {"0", "1", "2", "3", "4", "5"} /\ IsDigit(s[2])
          THEN 2 ELSE 0,
       IF Len(s) >= 1 /\ IsDigit(s[1]) THEN 1 ELSE 0 >>

\* The number a run of digit characters spells.
RECURSIVE NumberOf(_)
NumberOf(s) ==
    IF Len(s) = 0 THEN 0
    ELSE 10 * NumberOf(SubSeq(s, 1, Len(s) - 1)) + DigitValue(s[Len(s)])

\* The regex match of "%H:%M" at the start of s: the first way, in
\* backtracking order, to match hour, colon and minute.  <<>> when none.
RegexMatch(s) ==
    LET ways == { w \in (1..3) \X (1..2) :
                    LET h == MatchHour(s)[w[1]]
                        rest == SubSeq(s, h + 1, Len(s))
                    IN  /\ h > 0
                        /\ Len(rest) >= 1 /\ rest[1] = ":"
                        /\ MatchMinute(Tail(rest))[w[2]] > 0 }
    IN  IF ways = {} THEN << >>
        ELSE LET w == CHOOSE v \in ways :
                        \A o \in ways : v[1] < o[1] \/ (v[1] = o[1] /\ v[2] <= o[2])
                 h == MatchHour(s)[w[1]]
                 m == MatchMinute(SubSeq(s, h + 2, Len(s)))[w[2]]
             IN  << [hour |-> NumberOf(SubSeq(s, 1, h)),
                     minute |-> NumberOf(SubSeq(s, h + 2, h + 1 + m)),
                     end |-> h + 1 + m] >>

\* A strptime that accepts a match followed by unconverted data.
strptime_prefix(time_str) ==
    LET found == RegexMatch(time_str)
    IN  IF found = << >> THEN Raised("ValueError", "time data does not match format")
        ELSE Returned([hour |-> found[1].hour, minute |-> found[1].minute])

\* datetime.strptime(time_str, "%H:%M").time(): ValueError when the format
\* does not match at the start or when unconverted data remains after it.
strptime(time_str) ==
    LET found == RegexMatch(time_str)
    IN  IF found = << >> THEN Raised("ValueError", "time data does not match format")
        ELSE IF found[1].end # Len(time_str)
             THEN Raised("ValueError", "unconverted data remains")
             ELSE Returned([hour |-> found[1].hour, minute |-> found[1].minute])

\* ------------------------------------------------------------ get_local_tz

\* The label one platform's locale gives China Standard Time: the six CJK
\* characters U+4E2D U+56FD U+6807 U+51C6 U+65F6 U+95F4, named here in ASCII.
ChinaStandardTimeLabel == "<U+4E2D U+56FD U+6807 U+51C6 U+65F6 U+95F4>"

\* Python truthiness of an Optional[str]: None and "" are false.
Truthy(opt) == opt # << >> /\ opt[1] # ""

\* A get_local_tz that asks the environment whatever the override.
get_local_tz_ignoring_override(local_tz_override, tzinfo) ==
    IF tzinfo # << >> /\ tzinfo[1] = ChinaStandardTimeLabel THEN Returned("Asia/Shanghai")
    ELSE IF tzinfo # << >> THEN Returned(tzinfo[1])
         ELSE Raised("ValueError",
                     "Could not determine local timezone - tzinfo is {tzinfo}")

\* get_local_tz(local_tz_override), with tzinfo what
\* datetime.now().astimezone(tz=None).tzinfo gave: None or a label.
get_local_tz(local_tz_override, tzinfo) ==
    IF Truthy(local_tz_override) THEN Returned(local_tz_override[1])
    ELSE IF tzinfo # << >> /\ tzinfo[1] = ChinaStandardTimeLabel
         THEN Returned("Asia/Shanghai")
         ELSE IF tzinfo # << >> THEN Returned(tzinfo[1])
              ELSE Raised("ValueError",
                          "Could not determine local timezone - tzinfo is {tzinfo}")

\* ------------------------------------------------------------ get_zoneinfo

\* A get_zoneinfo that falls back to UTC for a key the database lacks.
get_zoneinfo_or_utc(timezone_name) ==
    IF timezone_name \in RecognizedZones THEN Returned(timezone_name) ELSE Returned("UTC")

\* get_zoneinfo(timezone_name): the zone (named by its key), or ValueError
\* with the lookup's message behind "Invalid timezone: ".
get_zoneinfo(timezone_name) ==
    IF timezone_name \in RecognizedZones THEN Returned(timezone_name)
    ELSE Raised("ValueError", "Invalid timezone: " \o ZoneInfoNotFound(timezone_name))

\* ---------------------------------------------------- the time difference

\* round(a / b) for a >= 0, b > 0, ties to even, as float formatting rounds.
RoundHalfEven(a, b) ==
    LET q == a \div b
        r == a % b
    IN  IF 2 * r < b THEN q
        ELSE IF 2 * r > b THEN q + 1
        ELSE IF q % 2 = 0 THEN q ELSE q + 1

SignChar(seconds) == IF seconds < 0 THEN "-" ELSE "+"

\* f"{hours_difference:+.1f}h" of a whole number of hours.
FormatOneDecimal(seconds) ==
    <<SignChar(seconds)>> \o DecimalChars(Abs(seconds) \div SecondsPerHour)
        \o <<".", "0", "h">>

\* f"{hours_difference:+.2f}": sign, whole part, point, two decimals.
FormatTwoDecimals(seconds) ==
    LET hundredths == RoundHalfEven(Abs(seconds) * 100, SecondsPerHour)
    IN  <<SignChar(seconds)>> \o DecimalChars(hundredths \div 100) \o <<".">>
            \o <<Digits[((hundredths \div 10) % 10) + 1], Digits[(hundredths % 10) + 1]>>

\* A time_diff_str without the whole-number branch.
time_diff_str_two_decimals(target_offset, source_offset) ==
    rstrip(rstrip(FormatTwoDecimals(target_offset - source_offset), "0"), ".") \o <<"h">>

\* Lines 115-120: the difference of two utcoffsets (seconds) as time_diff_str.
\* hours_difference.is_integer() holds when the seconds are whole hours.
time_diff_str(target_offset, source_offset) ==
    LET seconds == target_offset - source_offset
    IN  IF seconds % SecondsPerHour = 0 THEN FormatOneDecimal(seconds)
        ELSE rstrip(rstrip(FormatTwoDecimals(seconds), "0"), ".") \o <<"h">>

\* ------------------------------------------------------------- the results

\* TimeResult(timezone=..., datetime=dt.isoformat(timespec="seconds"),
\* is_dst=bool(dt.dst())): a zero timedelta is false.
TimeResult(timezone_name, dt) ==
    [timezone |-> timezone_name, datetime |-> isoformat(dt), is_dst |-> dst(dt) # 0]

InvalidTimeFormat ==
    Raised("ValueError", "Invalid time format. Expected HH:MM [24-hour format]")

\* A line 102 that reads now in the target zone.
convert_now_in_target(source_timezone, target_timezone, u) == now_in(target_timezone, u)

\* Line 102: now = datetime.now(source_timezone), at clock reading u.
convert_now(source_timezone, target_timezone, u) == now_in(source_timezone, u)

\* Lines 103-110: today's date of now, the parsed hour and minute.
source_time_of(now, parsed_time, source_timezone) ==
    datetime_new(now.date, parsed_time.hour, parsed_time.minute, source_timezone)

\* Lines 103-134 of convert_time, from the resolved zones, the parsed time
\* and now: the TimeConversionResult.
convert_result(source_tz, target_tz, source_timezone, target_timezone, parsed_time, now) ==
    LET source_time == source_time_of(now, parsed_time, source_timezone)
        target_time == astimezone(source_time, target_timezone)
        source_offset == utcoffset(source_time)
        target_offset == utcoffset(target_time)
    IN  [source |-> TimeResult(source_tz, source_time),
         target |-> TimeResult(target_tz, target_time),
         time_difference |-> time_diff_str(target_offset, source_offset)]

\* convert_time(source_tz, time_str, target_tz) as one function of its
\* arguments and the clock reading u it takes.
convert_time(source_tz, time_str, target_tz, u) ==
    LET source_timezone == get_zoneinfo(source_tz)
        target_timezone == get_zoneinfo(target_tz)
        parsed_time == strptime(time_str)
    IN  IF source_timezone.kind = "raise" THEN source_timezone
        ELSE IF target_timezone.kind = "raise" THEN target_timezone
        ELSE IF parsed_time.kind = "raise" THEN InvalidTimeFormat
        ELSE Returned(convert_result(source_tz, target_tz, source_timezone.value,
                 target_timezone.value, parsed_time.value,
                 convert_now(source_timezone.value, target_timezone.value, u)))

\* get_current_time(timezone_name) as one function of its argument, the
\* configured args.local_timezone, the environment's tzinfo and the clock
\* reading u.
get_current_time(timezone_name, local_tz_override, tzinfo, u) ==
    LET local == get_local_tz(local_tz_override, tzinfo)
        name == IF timezone_name = "local" THEN local ELSE Returned(timezone_name)
    IN  IF name.kind = "raise" THEN name
        ELSE LET timezone == get_zoneinfo(name.value)
             IN  IF timezone.kind = "raise" THEN timezone
                 ELSE Returned(TimeResult(name.value, now_in(timezone.value, u)))

\* ------------------------------------------------------------------ inputs

\* The names callers pass: the database's keys, the alias and unknown names.
ZoneNames == RecognizedZones \cup {"local", "bogus/zone"}

\* args.local_timezone: absent, empty, a database key, not a database key.
Overrides == {<< >>, <<"">>, <<"Europe/Paris">>, <<"Mars/Base">>}

\* What the environment reports as the local zone's tzinfo: nothing (the
\* case line 35 guards against), the China-Standard-Time label, a label that
\* is a database key, one that is not.
EnvTzinfo == {<< >>, <<ChinaStandardTimeLabel>>, <<"UTC">>, <<"PST">>}

\* time_str values: well-formed ones (among them times inside the hour
\* skipped and the hour repeated by a transition) and malformed ones.
TimeStrs ==
    { <<"1", "4", ":", "3", "0">>, <<"0", "2", ":", "3", "0">>,
      <<"0", "1", ":", "3", "0">>, <<"0", "0", ":", "0", "0">>,
      <<"2", "3", ":", "5", "9">>, <<"1", "0", ":", "0", "0">>,
      <<"1", ":", "5">>,
      <<"2", "5", ":", "6", "1">>, <<"2", "4", ":", "0", "0">>,
      <<"1", "2", ":", "6", "0">>, <<"1", "2", "3", "0">>,
      <<"1", "2", ":", "3", "0", ":", "0", "0">>, <<"1", "2", ":", "3", "a">>,
      <<" ", "3", ":", "0", "7">>, << >> }

\* The days (UTC) the clock is read on: a winter and a summer day, and the
\* day of each transition of the database.
ClockDays == {40, 66, 87, 200, 297, 304}

\* The clock readings: ReadingsPerDay instants spread over each day, none on
\* a whole minute.
ClockReadings ==
    { Day(d) + (k * SecondsPerDay) \div ReadingsPerDay + Hours(1) + 15 * 60 + 42 :
        d \in ClockDays, k \in 0 .. (ReadingsPerDay - 1) }

\* The call contexts the transport may run at once.
Contexts == {1, 2}

\* ------------------------------------------------------------------- state

VARIABLES
    local_timezone,   \* args.local_timezone, set by the command line
    pc,               \* per call context: the line the call is at
    frame,            \* per call context: the call's arguments and locals
    outcome           \* per call context: what the call returned or raised

vars == <<local_timezone, pc, frame, outcome>>

\* A frame before anything is bound.  args are the arguments as passed;
\* env and clock are what the call read from the environment and the clock;
\* origin, on the second leg of a round trip, is the first leg.
EmptyFrame ==
    [op |-> "none",
     args |-> [timezone_name |-> "", source_tz |-> "", time_str |-> << >>, target_tz |-> ""],
     timezone_name |-> "", timezone |-> "",
     source_timezone |-> "", target_timezone |-> "",
     parsed_time |-> [hour |-> 0, minute |-> 0],
     now |-> << >>, env |-> << >>, clock |-> << >>, origin |-> << >>]

Init ==
    /\ local_timezone \in Overrides
    /\ pc = [c \in Contexts |-> "idle"]
    /\ frame = [c \in Contexts |-> EmptyFrame]
    /\ outcome = [c \in Contexts |-> NoOutcome]

\* A call ends: its outcome is set and its frame kept for inspection.
Finish(c, result, fr) ==
    /\ pc' = [pc EXCEPT ![c] = "done"]
    /\ frame' = [frame EXCEPT ![c] = fr]
    /\ outcome' = [outcome EXCEPT ![c] = result]

\* A call moves on to line `line` with its locals updated.
Goto(c, line, fr) ==
    /\ pc' = [pc EXCEPT ![c] = line]
    /\ frame' = [frame EXCEPT ![c] = fr]
    /\ UNCHANGED outcome

\* ------------------------------------------------------- get_current_time

\* The transport calls get_current_time(timezone_name).
CallGetCurrentTime(c, names) ==
    /\ pc[c] = "idle"
    /\ \E name \in names :
         Goto(c, "gct_59",
              [EmptyFrame EXCEPT !.op = "get_current_time",
                                 !.args.timezone_name = name,
                                 !.timezone_name = name])
    /\ UNCHANGED local_timezone

\* Lines 59-60 with the detected zone kept in args.local_timezone for the
\* calls to come.
GctLocalCaching(c) ==
    /\ pc[c] = "gct_59"
    /\ IF frame[c].timezone_name = "local"
       THEN \E tzinfo \in (IF Truthy(local_timezone) THEN {<< >>} ELSE EnvTzinfo) :
              LET local == get_local_tz(local_timezone, tzinfo)
                  fr == IF Truthy(local_timezone) THEN frame[c]
                        ELSE [frame[c] EXCEPT !.env = <<tzinfo>>]
              IN  IF local.kind = "raise"
                  THEN Finish(c, local, fr) /\ UNCHANGED local_timezone
                  ELSE /\ Goto(c, "gct_61", [fr EXCEPT !.timezone_name = local.value])
                       /\ local_timezone' = <<local.value>>
       ELSE Goto(c, "gct_61", frame[c]) /\ UNCHANGED local_timezone

\* Lines 59-60: "local" is replaced by get_local_tz(args.local_timezone),
\* which asks the environment only when the override is not set.
GctLocal(c) ==
    /\ pc[c] = "gct_59"
    /\ IF frame[c].timezone_name = "local"
       THEN \E tzinfo \in (IF Truthy(local_timezone) THEN {<< >>} ELSE EnvTzinfo) :
              LET local == get_local_tz(local_timezone, tzinfo)
                  fr == IF Truthy(local_timezone) THEN frame[c]
                        ELSE [frame[c] EXCEPT !.env = <<tzinfo>>]
              IN  IF local.kind = "raise" THEN Finish(c, local, fr)
                  ELSE Goto(c, "gct_61", [fr EXCEPT !.timezone_name = local.value])
       ELSE Goto(c, "gct_61", frame[c])
    /\ UNCHANGED local_timezone

\* Line 61: timezone = get_zoneinfo(timezone_name).
GctZone(c) ==
    /\ pc[c] = "gct_61"
    /\ LET timezone == get_zoneinfo(frame[c].timezone_name)
       IN  IF timezone.kind = "raise" THEN Finish(c, timezone, frame[c])
           ELSE Goto(c, "gct_62", [frame[c] EXCEPT !.timezone = timezone.value])
    /\ UNCHANGED local_timezone

\* Lines 62-68: the clock is read in the zone and the TimeResult returned.
GctNow(c, readings) ==
    /\ pc[c] = "gct_62"
    /\ \E u \in readings :
         LET current_time == now_in(frame[c].timezone, u)
         IN  Finish(c, Returned(TimeResult(frame[c].timezone_name, current_time)),
                    [frame[c] EXCEPT !.now = <<current_time>>, !.clock = <<u>>])
    /\ UNCHANGED local_timezone

\* ------------------------------------------------------------ convert_time

\* The transport calls convert_time(source_tz, time_str, target_tz).
CallConvertTime(c, names, strs) ==
    /\ pc[c] = "idle"
    /\ \E source_tz \in names, target_tz \in names, time_str \in strs :
         Goto(c, "cvt_94",
              [EmptyFrame EXCEPT !.op = "convert_time",
                                 !.args.source_tz = source_tz,
                                 !.args.time_str = time_str,
                                 !.args.target_tz = target_tz])
    /\ UNCHANGED local_timezone

\* Line 94: source_timezone = get_zoneinfo(source_tz).
CvtSource(c) ==
    /\ pc[c] = "cvt_94"
    /\ LET source_timezone == get_zoneinfo(frame[c].args.source_tz)
       IN  IF source_timezone.kind = "raise" THEN Finish(c, source_timezone, frame[c])
           ELSE Goto(c, "cvt_95",
                     [frame[c] EXCEPT !.source_timezone = source_timezone.value])
    /\ UNCHANGED local_timezone

\* Line 95: target_timezone = get_zoneinfo(target_tz).
CvtTarget(c) ==
    /\ pc[c] = "cvt_95"
    /\ LET target_timezone == get_zoneinfo(frame[c].args.target_tz)
       IN  IF target_timezone.kind = "raise" THEN Finish(c, target_timezone, frame[c])
           ELSE Goto(c, "cvt_97",
                     [frame[c] EXCEPT !.target_timezone = target_timezone.value])
    /\ UNCHANGED local_timezone

\* Lines 97-100: the time is parsed; the parser's ValueError is replaced by
\* the fixed message.
CvtParse(c) ==
    /\ pc[c] = "cvt_97"
    /\ LET parsed_time == strptime(frame[c].args.time_str)
       IN  IF parsed_time.kind = "raise" THEN Finish(c, InvalidTimeFormat, frame[c])
           ELSE Goto(c, "cvt_102", [frame[c] EXCEPT !.parsed_time = parsed_time.value])
    /\ UNCHANGED local_timezone

\* Line 102: now = datetime.now(source_timezone).
CvtNow(c, readings) ==
    /\ pc[c] = "cvt_102"
    /\ \E u \in readings :
         Goto(c, "cvt_103",
              [frame[c] EXCEPT
                 !.now = <<convert_now(frame[c].source_timezone,
                                       frame[c].target_timezone, u)>>,
                 !.clock = <<u>>])
    /\ UNCHANGED local_timezone

\* Lines 103-134: the source time is built, converted and returned.
CvtBuild(c) ==
    /\ pc[c] = "cvt_103"
    /\ Finish(c, Returned(convert_result(frame[c].args.source_tz, frame[c].args.target_tz,
                              frame[c].source_timezone, frame[c].target_timezone,
                              frame[c].parsed_time, frame[c].now[1])),
              frame[c])
    /\ UNCHANGED local_timezone

\* ------------------------------------------------------------- the callers

\* The caller takes the outcome; the context is free for the next call.
TakeOutcome(c) ==
    /\ pc[c] = "done"
    /\ pc' = [pc EXCEPT ![c] = "idle"]
    /\ frame' = [frame EXCEPT ![c] = EmptyFrame]
    /\ outcome' = [outcome EXCEPT ![c] = NoOutcome]
    /\ UNCHANGED local_timezone

\* "HH:MM", zero-padded, as a caller writes a wall-clock time.
TwoDigits(n) == <<Digits[(n \div 10) + 1], Digits[(n % 10) + 1]>>

ClockText(hour, minute) == TwoDigits(hour) \o <<":">> \o TwoDigits(minute)

\* A caller converts the target time of a finished conversion back: the
\* second leg of a round trip, which remembers the first leg's zones, wall
\* clock time and the two utcoffsets it looked up.
CallConvertBack(c) ==
    /\ pc[c] = "done"
    /\ frame[c].op = "convert_time"
    /\ frame[c].origin = << >>
    /\ outcome[c].kind = "return"
    /\ LET first == outcome[c].value
       IN  /\ pc' = [pc EXCEPT ![c] = "cvt_94"]
           /\ outcome' = [outcome EXCEPT ![c] = NoOutcome]
           /\ frame' = [frame EXCEPT ![c] =
                [EmptyFrame EXCEPT
                   !.op = "convert_time",
                   !.args.source_tz = first.target.timezone,
                   !.args.time_str = ClockText(first.target.datetime.hour,
                                               first.target.datetime.minute),
                   !.args.target_tz = first.source.timezone,
                   !.origin = <<[source_tz |-> first.source.timezone,
                                 target_tz |-> first.target.timezone,
                                 hour |-> first.source.datetime.hour,
                                 minute |-> first.source.datetime.minute,
                                 source_offset |-> first.source.datetime.offset,
                                 target_offset |-> first.target.datetime.offset]>>]]
    /\ UNCHANGED local_timezone

\* ---------------------------------------------------------- specifications

\* One step of call context c, with the inputs and clock readings it may use.
Step(c, names, strs, readings) ==
    \/ CallGetCurrentTime(c, names)
    \/ GctLocal(c)
    \/ GctZone(c)
    \/ GctNow(c, readings)
    \/ CallConvertTime(c, names, strs)
    \/ CvtSource(c)
    \/ CvtTarget(c)
    \/ CvtParse(c)
    \/ CvtNow(c, readings)
    \/ CvtBuild(c)
    \/ TakeOutcome(c)
    \/ CallConvertBack(c)

\* Calls served one at a time, over all the inputs.
Next == Step(1, ZoneNames, TimeStrs, ClockReadings)

Spec == Init /\ [][Next]_vars

\* Two call contexts interleaved line by line, over inputs that keep the
\* product of the two small: the alias, a fixed zone, a zone with transitions
\* and an unknown name; a time in the skipped hour and a malformed one; a
\* reading on the day of a transition and one in summer.
ConcNames == {"local", "UTC", "America/New_York", "bogus/zone"}

ConcTimeStrs == { <<"0", "2", ":", "3", "0">>, <<"2", "5", ":", "6", "1">> }

ConcReadings == { Day(66) + Hours(17) + 15 * 60 + 42, Day(200) + Hours(1) + 15 * 60 + 42 }

NextConc ==
    \E c \in Contexts :
        \/ CallGetCurrentTime(c, ConcNames)
        \/ GctLocal(c)
        \/ GctZone(c)
        \/ GctNow(c, ConcReadings)
        \/ CallConvertTime(c, ConcNames, ConcTimeStrs)
        \/ CvtSource(c)
        \/ CvtTarget(c)
        \/ CvtParse(c)
        \/ CvtNow(c, ConcReadings)
        \/ CvtBuild(c)
        \/ TakeOutcome(c)

SpecConc == Init /\ [][NextConc]_vars

\* ------------------------------------------------- what the claims speak of

\* The absolute instant a printed date-time denotes: wall clock minus offset.
Instant(iso) ==
    Day(iso.date) + Hours(iso.hour) + 60 * iso.minute + iso.second - iso.offset

\* The last transition of zone z at or before UTC instant u (0: none).
LastTransition(z, u) ==
    IF \E i \in DOMAIN TzDatabase[z].trans : TzDatabase[z].trans[i].utc <= u
    THEN CHOOSE i \in DOMAIN TzDatabase[z].trans :
            /\ TzDatabase[z].trans[i].utc <= u
            /\ \A j \in DOMAIN TzDatabase[z].trans :
                  TzDatabase[z].trans[j].utc <= u => j <= i
    ELSE 0

\* Zone z's UTC offset and daylight-saving adjustment at UTC instant u.
ZoneOffsetAt(z, u) ==
    IF LastTransition(z, u) = 0 THEN TzDatabase[z].utcoff
    ELSE TzDatabase[z].trans[LastTransition(z, u)].utcoff

ZoneDstAt(z, u) ==
    IF LastTransition(z, u) = 0 THEN 0 ELSE TzDatabase[z].trans[LastTransition(z, u)].dst

\* The calendar date in zone z at UTC instant u.
ZoneDateAt(z, u) == FloorDiv(u + ZoneOffsetAt(z, u), SecondsPerDay)

\* The places of ":" in a time_str.
Colons(s) == {i \in DOMAIN s : s[i] = ":"}

AllDigits(s) == \A i \in DOMAIN s : IsDigit(s[i])

\* A well-formed time_str: one or two digits of an hour 0-23, a colon, one
\* or two digits of a minute 0-59, and nothing else.
WellFormed(s) ==
    /\ Cardinality(Colons(s)) = 1
    /\ LET k == CHOOSE i \in Colons(s) : TRUE
           h == SubSeq(s, 1, k - 1)
           m == SubSeq(s, k + 1, Len(s))
       IN  /\ Len(h) \in {1, 2} /\ AllDigits(h) /\ NumberOf(h) <= 23
           /\ Len(m) \in {1, 2} /\ AllDigits(m) /\ NumberOf(m) <= 59

HourOf(s) == NumberOf(SubSeq(s, 1, (CHOOSE i \in Colons(s) : TRUE) - 1))

MinuteOf(s) == NumberOf(SubSeq(s, (CHOOSE i \in Colons(s) : TRUE) + 1, Len(s)))

\* The spec's error kinds, which the code tells apart by message only.
IsInvalidTimezoneError(o, name) ==
    /\ o.kind = "raise"
    /\ o.message = "Invalid timezone: " \o ZoneInfoNotFound(name)

IsInvalidTimeFormatError(o) ==
    /\ o.kind = "raise"
    /\ o.message = "Invalid time format. Expected HH:MM [24-hour format]"

IsLocalTimezoneUndeterminedError(o) ==
    /\ o.kind = "raise"
    /\ o.message = "Could not determine local timezone - tzinfo is {tzinfo}"

\* Call context c has finished a convert_time / get_current_time call.
ConvertDone(c) == pc[c] = "done" /\ frame[c].op = "convert_time"

CurrentDone(c) == pc[c] = "done" /\ frame[c].op = "get_current_time"

ConvertReturned(c) == ConvertDone(c) /\ outcome[c].kind = "return"

RecognizedPair(c) ==
    /\ frame[c].args.source_tz \in RecognizedZones
    /\ frame[c].args.target_tz \in RecognizedZones

\* The utcoffset difference a finished conversion reports, target minus
\* source, in seconds.
ReportedDifference(c) ==
    outcome[c].value.target.datetime.offset - outcome[c].value.source.datetime.offset

\* ------------------------------------------------------------------ claims

\* C1: for recognized zones and a well-formed time_str convert_time returns,
\* and source and target denote the same absolute instant: source wall clock
\* minus source offset equals target wall clock minus target offset.
C1_SameInstant ==
    \A c \in Contexts :
        (ConvertDone(c) /\ RecognizedPair(c) /\ WellFormed(frame[c].args.time_str)) =>
            /\ outcome[c].kind = "return"
            /\ Instant(outcome[c].value.source.datetime)
                 = Instant(outcome[c].value.target.datetime)

\* A conversion between different zones whose target falls on another
\* calendar date than its source.
C1_Witness ==
    \E c \in Contexts :
        /\ ConvertReturned(c)
        /\ frame[c].args.source_tz # frame[c].args.target_tz
        /\ outcome[c].value.source.datetime.date # outcome[c].value.target.datetime.date
        /\ outcome[c].value.source.datetime.offset # outcome[c].value.target.datetime.offset

\* C2: time_difference renders the target zone's UTC offset minus the source
\* zone's, both taken at the instant the source time denotes; Asia/Kolkata to
\* UTC gives "-5.5h", UTC to UTC gives "+0.0h" with equal date-times.
C2_OffsetsAtInstant ==
    \A c \in Contexts :
        ConvertReturned(c) =>
            LET r == outcome[c].value
                at == Instant(r.source.datetime)
            IN  /\ r.time_difference =
                     time_diff_str(ZoneOffsetAt(frame[c].args.target_tz, at),
                                   ZoneOffsetAt(frame[c].args.source_tz, at))
                /\ (frame[c].args.source_tz = "Asia/Kolkata" /\ frame[c].args.target_tz = "UTC")
                      => Join(r.time_difference) = "-5.5h"
                /\ (frame[c].args.source_tz = "UTC" /\ frame[c].args.target_tz = "UTC")
                      => (Join(r.time_difference) = "+0.0h"
                          /\ r.source.datetime = r.target.datetime)

\* The fractional part of a rendered difference: hundredths of an hour with
\* trailing zeros dropped, at least ".0" for a whole number of hours.
Fraction(seconds) ==
    LET h == RoundHalfEven(Abs(seconds) * 100, SecondsPerHour) % 100
    IN  IF Abs(seconds) % SecondsPerHour = 0 THEN <<".", "0">>
        ELSE IF h % 10 # 0 THEN <<".", Digits[(h \div 10) + 1], Digits[(h % 10) + 1]>>
        ELSE IF h # 0 THEN <<".", Digits[(h \div 10) + 1]>>
        ELSE << >>

\* C3: time_difference starts with "+" or "-" and ends with "h"; a whole
\* number of hours has exactly one decimal, any other two decimals with the
\* trailing zeros stripped; 5.0 "+5.0h", -5.0 "-5.0h", 5.75 "+5.75h",
\* 5.5 "+5.5h", 0.0 "+0.0h".
C3_DifferenceFormat ==
    \A c \in Contexts :
        ConvertReturned(c) =>
            LET td == outcome[c].value.time_difference
                d == ReportedDifference(c)
            IN  /\ td[1] \in {"+", "-"} /\ td[1] = (IF d < 0 THEN "-" ELSE "+")
                /\ td[Len(td)] = "h"
                /\ SubSeq(td, 2, Len(td) - 1) =
                     DecimalChars(RoundHalfEven(Abs(d) * 100, SecondsPerHour) \div 100)
                        \o Fraction(d)
                /\ d = Hours(5) => Join(td) = "+5.0h"
                /\ d = -Hours(5) => Join(td) = "-5.0h"
                /\ d = Hours(5) + 45 * 60 => Join(td) = "+5.75h"
                /\ d = Hours(5) + 30 * 60 => Join(td) = "+5.5h"
                /\ d = 0 => Join(td) = "+0.0h"

\* A conversion whose difference is 5.75 hours, rendered "+5.75h".
C3_Witness ==
    \E c \in Contexts :
        /\ ConvertReturned(c)
        /\ ReportedDifference(c) = Hours(5) + 45 * 60
        /\ Join(outcome[c].value.time_difference) = "+5.75h"

\* C4: with recognized zones, a time_str that is not a well-formed 24-hour
\* HH:MM makes convert_time fail with the fixed message
\* "Invalid time format. Expected HH:MM [24-hour format]"; nothing is
\* returned, and no call that has not finished has an outcome.
C4_InvalidTimeFormat ==
    \A c \in Contexts :
        /\ (ConvertDone(c) /\ RecognizedPair(c) /\ ~WellFormed(frame[c].args.time_str))
              => IsInvalidTimeFormatError(outcome[c])
        /\ pc[c] # "done" => outcome[c] = NoOutcome

\* convert_time with recognized zones and "25:61" has failed.
C4_Witness ==
    \E c \in Contexts :
        /\ ConvertDone(c) /\ RecognizedPair(c)
        /\ frame[c].args.time_str = <<"2", "5", ":", "6", "1">>
        /\ outcome[c].kind = "raise"

\* C5: a name the database does not know ends the call with the
\* invalid-timezone error: get_current_time for every such name but "local",
\* convert_time when the source or the target is such a name, whatever the
\* time_str; in convert_time "local" is such a name.
C5_InvalidTimezone ==
    \A c \in Contexts :
        /\ (CurrentDone(c) /\ frame[c].args.timezone_name \notin RecognizedZones \cup {"local"})
              => IsInvalidTimezoneError(outcome[c], frame[c].args.timezone_name)
        /\ (ConvertDone(c) /\ frame[c].args.source_tz \notin RecognizedZones)
              => IsInvalidTimezoneError(outcome[c], frame[c].args.source_tz)
        /\ (ConvertDone(c) /\ frame[c].args.source_tz \in RecognizedZones
                           /\ frame[c].args.target_tz \notin RecognizedZones)
              => IsInvalidTimezoneError(outcome[c], frame[c].args.target_tz)

\* convert_time to "local" with a malformed time_str has failed over the
\* zone, not over the time.
C5_Witness ==
    \E c \in Contexts :
        /\ ConvertDone(c)
        /\ frame[c].args.source_tz \in RecognizedZones
        /\ frame[c].args.target_tz = "local"
        /\ ~WellFormed(frame[c].args.time_str)
        /\ IsInvalidTimezoneError(outcome[c], "local")

\* The name get_current_time("local") hands to the resolver, from the
\* override and what the call read from the environment (<<>>: nothing).
LocalName(c) ==
    IF local_timezone # << >> /\ local_timezone[1] # "" THEN <<local_timezone[1]>>
    ELSE IF frame[c].env[1] = << >> THEN << >>
    ELSE IF frame[c].env[1][1] = ChinaStandardTimeLabel THEN <<"Asia/Shanghai">>
    ELSE frame[c].env[1]

\* C6: get_current_time's timezone field is the name handed to the
\* resolver: z itself for a recognized z; for "local" the non-empty override,
\* else "Asia/Shanghai" for the legacy label, else the environment's label;
\* with no label the call fails as undetermined, and a name the database
\* does not know (override or label) fails as an invalid timezone.
C6_TimezoneField ==
    \A c \in Contexts :
        CurrentDone(c) =>
            /\ frame[c].args.timezone_name \in RecognizedZones =>
                  /\ outcome[c].kind = "return"
                  /\ outcome[c].value.timezone = frame[c].args.timezone_name
            /\ frame[c].args.timezone_name = "local" =>
                  IF LocalName(c) = << >> THEN IsLocalTimezoneUndeterminedError(outcome[c])
                  ELSE IF LocalName(c)[1] \in RecognizedZones
                       THEN /\ outcome[c].kind = "return"
                            /\ outcome[c].value.timezone = LocalName(c)[1]
                       ELSE IsInvalidTimezoneError(outcome[c], LocalName(c)[1])

\* get_current_time("local") under the override "Europe/Paris" has returned.
C6_Witness ==
    \E c \in Contexts :
        /\ CurrentDone(c)
        /\ frame[c].args.timezone_name = "local"
        /\ local_timezone = <<"Europe/Paris">>
        /\ outcome[c].kind = "return"
        /\ outcome[c].value.timezone = "Europe/Paris"

\* is_dst of a TimeResult against the zone's adjustment at its instant.
DstAtOwnInstant(r) == r.is_dst <=> (ZoneDstAt(r.timezone, Instant(r.datetime)) # 0)

\* C7: is_dst of every TimeResult is true exactly when the zone's
\* daylight-saving adjustment at that result's instant is non-zero, each leg
\* of a conversion for its own zone.
C7_IsDstAtInstant ==
    \A c \in Contexts :
        /\ (CurrentDone(c) /\ outcome[c].kind = "return") => DstAtOwnInstant(outcome[c].value)
        /\ ConvertReturned(c) =>
              /\ DstAtOwnInstant(outcome[c].value.source)
              /\ DstAtOwnInstant(outcome[c].value.target)

\* The second leg of a round trip has returned having looked up the same
\* two utcoffsets as the first leg.
SameOffsets(c) ==
    /\ ConvertReturned(c)
    /\ frame[c].origin # << >>
    /\ outcome[c].value.source.datetime.offset = frame[c].origin[1].target_offset
    /\ outcome[c].value.target.datetime.offset = frame[c].origin[1].source_offset

\* C8: converting A's time t to B and the result back to A gives hour and
\* minute t again, provided both legs looked up the same offsets of A and B.
C8_RoundTrip ==
    \A c \in Contexts :
        SameOffsets(c) =>
            /\ outcome[c].value.target.datetime.hour = frame[c].origin[1].hour
            /\ outcome[c].value.target.datetime.minute = frame[c].origin[1].minute

\* A round trip between two different zones, one of them in daylight-saving
\* time, has come back.
C8_Witness ==
    \E c \in Contexts :
        /\ SameOffsets(c)
        /\ frame[c].origin[1].source_tz # frame[c].origin[1].target_tz
        /\ outcome[c].value.source.is_dst
        /\ outcome[c].value.source.datetime.minute # outcome[c].value.target.datetime.minute

\* What a finished call would have returned run alone: the function of its
\* arguments, the configuration, and the environment and clock it read.  A
\* call that read no environment or clock is held against every reading.
AsRunAlone(c) ==
    \A tzinfo \in (IF frame[c].env = << >> THEN EnvTzinfo ELSE {frame[c].env[1]}),
       u \in (IF frame[c].clock = << >> THEN ConcReadings ELSE {frame[c].clock[1]}) :
        outcome[c] =
            IF frame[c].op = "get_current_time"
            THEN get_current_time(frame[c].args.timezone_name, local_timezone, tzinfo, u)
            ELSE convert_time(frame[c].args.source_tz, frame[c].args.time_str,
                              frame[c].args.target_tz, u)

\* C9: no step of any call changes the configured override, and under every
\* interleaving a finished call's outcome is the one it has when run alone.
C9_NoSharedState ==
    /\ [](\A c \in Contexts : pc[c] = "done" => AsRunAlone(c))
    /\ [][local_timezone' = local_timezone]_vars

\* One context has returned from get_current_time("local") while the other,
\* started meanwhile, is inside its own with a different environment reading.
C9_Witness ==
    /\ CurrentDone(1) /\ frame[1].args.timezone_name = "local"
    /\ outcome[1].kind = "return"
    /\ pc[2] = "gct_61" /\ frame[2].args.timezone_name = "local"
    /\ frame[2].env # << >> /\ frame[2].env # frame[1].env

\* C10: the source leg's date is today's date in the source zone at the one
\* clock reading the call took, its hour and minute are those of time_str,
\* and its seconds are 0.
C10_SourceLeg ==
    \A c \in Contexts :
        ConvertReturned(c) =>
            LET src == outcome[c].value.source.datetime
            IN  /\ src.date = ZoneDateAt(frame[c].args.source_tz, frame[c].clock[1])
                /\ src.hour = HourOf(frame[c].args.time_str)
                /\ src.minute = MinuteOf(frame[c].args.time_str)
                /\ src.second = 0

\* A conversion read the clock when the date in the source zone was neither
\* the UTC date nor the date in the target zone.
C10_Witness ==
    \E c \in Contexts :
        /\ ConvertReturned(c)
        /\ ZoneDateAt(frame[c].args.source_tz, frame[c].clock[1])
             # ZoneDateAt("UTC", frame[c].clock[1])
        /\ ZoneDateAt(frame[c].args.source_tz, frame[c].clock[1])
             # ZoneDateAt(frame[c].args.target_tz, frame[c].clock[1])
        /\ frame[c].now[1].second # 0

====
